---- MODULE Spec2Model ----
(***************************************************************************)
(* A model of the transcription services of libaidamox:                    *)
(*   - SpeechServiceManager (TTS/speech_service.py): the backend registry; *)
(*   - whisper_service.py: the /transcribe request, with compress/convert, *)
(*     split_audio and the per-chunk transcription loop;                   *)
(*   - TTS/whisper_api.py: the /transcribe pipeline with preprocess_audio  *)
(*     and its end-of-request cleanup.                                     *)
(* Python's None is the empty tuple <<>> and a present value x is <<x>>,   *)
(* so that optional values of one variable always compare.                 *)
(***************************************************************************)
EXTENDS Integers, Sequences, FiniteSets, TLC

VARIABLES
    services,         \* SpeechServiceManager.services: id -> backend
    current_service,  \* SpeechServiceManager.current_service: <<>> or <<id>>
    call,             \* the last manager call: its name, argument, result and pre-state
    pc,               \* the request's position in its handler
    req,              \* the request: content type, filename extension, upload size, audio duration
    fs,               \* the disk: path -> byte size of the file there
    io,               \* the file writes and removals so far, in order
    whisper_model,    \* whisper_service.whisper_model: <<>> or <<"model">>
    temp_file_path,   \* transcribe_audio's temp_file_path: <<>> until assigned
    file_path,        \* transcribe_with_whisper's file_path
    chunk_paths,      \* transcribe_with_whisper's chunk_paths
    results,          \* transcribe_with_whisper's results
    transcribed,      \* the paths handed to a model's or backend's transcribe, in order
                      \* (for the manager on its own: the backends called)
    exc,              \* the exception in flight: <<>> or <<exception>>
    resp,             \* the response: <<>> until the request finishes
    file_size,        \* split_audio's locals
    duration_ms,
    approx_chunk_ms,
    start,
    end,
    i,
    chunks,
    spans,            \* the [start, end) of each element of chunks, in order
    original_file_path,   \* whisper_api.transcribe_audio's locals: <<>> until assigned
    processed_file_path,
    sound,            \* preprocess_audio's locals: <<>> until assigned
    start_trim,
    end_trim,
    trimmed_sound,    \* the [from, to) of sound that trimmed_sound holds
    svc,              \* a backend object of speech_service.py: <<>> or <<its fields>>
    svc_calls,        \* the calls of its transcribe so far, in order
    sel,              \* a thread in set_current_service: <<>> or <<its position and locals>>
    res               \* a thread in get_service: <<>> or <<its position and locals>>

mgrVars == <<services, current_service, call>>

splitVars == <<file_size, duration_ms, approx_chunk_ms, start, end, i, chunks, spans>>

loopVars == <<chunk_paths, results, transcribed>>

reqVars == <<pc, req, fs, io, whisper_model, temp_file_path, file_path, exc, resp>>

apiVars == <<original_file_path, processed_file_path>>

prepVars == <<sound, start_trim, end_trim, trimmed_sound>>

svcVars == <<svc, svc_calls>>

concVars == <<sel, res>>

vars == <<mgrVars, reqVars, loopVars, splitVars, apiVars, prepVars, svcVars, concVars>>

----------------------------------------------------------------------------
(* Python values *)

None == <<>>

Some(x) == <<x>>

\* Python truthiness of an Optional[str]: None and "" are falsy.
Truthy(o) == o # None /\ o[1] # ""

\* Python's `a or b`.
PyOr(a, b) == IF Truthy(a) THEN a ELSE b

----------------------------------------------------------------------------
(* SpeechServiceManager *)

\* The service ids the calls draw from; "" is a str like any other.
ServiceIds == {"", "local_whisper", "deepgram"}

\* The backend objects that can be registered.
Backends == {"B1", "B2"}

OptServiceIds == {None} \cup {Some(s) : s \in ServiceIds}

\* What get_service raises.
ValueError == [ok |-> FALSE, val |-> "ValueError"]

Returned(b) == [ok |-> TRUE, val |-> b]

NoCall == [op |-> "none", arg |-> None, ret |-> Returned("none"),
           pre_services |-> << >>, pre_current |-> None]

\* SpeechServiceManager.__init__
ManagerInit ==
    /\ services = << >>
    /\ current_service = None
    /\ call = NoCall

GetServiceResultFallsBack(svcs, cur, service_id) ==
    LET sid == IF Truthy(service_id) /\ service_id[1] \in DOMAIN svcs
               THEN service_id ELSE cur IN
    IF ~Truthy(sid) \/ sid[1] \notin DOMAIN svcs
    THEN ValueError
    ELSE Returned(svcs[sid[1]])

\* get_service's result in a manager state: sid = service_id or current_service,
\* ValueError when sid is falsy or not a key of services.
GetServiceResult(svcs, cur, service_id) ==
    LET sid == PyOr(service_id, cur) IN
    IF ~Truthy(sid) \/ sid[1] \notin DOMAIN svcs
    THEN ValueError
    ELSE Returned(svcs[sid[1]])

RegisterServiceOverwriteAll(service_id, service) ==
    /\ services' = [k \in DOMAIN services \cup {service_id} |-> service]
    /\ UNCHANGED current_service
    /\ UNCHANGED <<reqVars, loopVars, splitVars, apiVars, prepVars, svcVars, concVars>>
    /\ call' = [op |-> "register_service", arg |-> Some(service_id),
                ret |-> Returned("none"),
                pre_services |-> services, pre_current |-> current_service]

\* register_service: services[service_id] = service
RegisterService(service_id, service) ==
    /\ services' = [k \in DOMAIN services \cup {service_id} |->
                        IF k = service_id THEN service ELSE services[k]]
    /\ UNCHANGED current_service
    /\ UNCHANGED <<reqVars, loopVars, splitVars, apiVars, prepVars, svcVars, concVars>>
    /\ call' = [op |-> "register_service", arg |-> Some(service_id),
                ret |-> Returned("none"),
                pre_services |-> services, pre_current |-> current_service]

SetCurrentServiceUnchecked(service_id) ==
    /\ current_service' = Some(service_id)
    /\ UNCHANGED services
    /\ UNCHANGED <<reqVars, loopVars, splitVars, apiVars, prepVars, svcVars, concVars>>
    /\ call' = [op |-> "set_current_service", arg |-> Some(service_id),
                ret |-> Returned("True"),
                pre_services |-> services, pre_current |-> current_service]

\* set_current_service: False when the id is not registered, else select it.
SetCurrentService(service_id) ==
    /\ IF service_id \notin DOMAIN services
       THEN /\ UNCHANGED current_service
            /\ call' = [op |-> "set_current_service", arg |-> Some(service_id),
                        ret |-> Returned("False"),
                        pre_services |-> services, pre_current |-> current_service]
       ELSE /\ current_service' = Some(service_id)
            /\ call' = [op |-> "set_current_service", arg |-> Some(service_id),
                        ret |-> Returned("True"),
                        pre_services |-> services, pre_current |-> current_service]
    /\ UNCHANGED services
    /\ UNCHANGED <<reqVars, loopVars, splitVars, apiVars, prepVars, svcVars, concVars>>

\* get_service changes nothing; its result is recorded in call.
GetService(service_id) ==
    /\ call' = [op |-> "get_service", arg |-> service_id,
                ret |-> GetServiceResult(services, current_service, service_id),
                pre_services |-> services, pre_current |-> current_service]
    /\ UNCHANGED <<services, current_service>>
    /\ UNCHANGED <<reqVars, loopVars, splitVars, apiVars, prepVars, svcVars, concVars>>

MaxTranscribeCalls == 2

TranscribeCallsFirst(service_id) ==
    /\ Len(transcribed) < MaxTranscribeCalls
    /\ LET service == GetServiceResult(services, current_service, service_id) IN
        /\ call' = [op |-> "transcribe", arg |-> service_id, ret |-> service,
                    pre_services |-> services, pre_current |-> current_service]
        /\ transcribed' = Append(transcribed, IF service.ok THEN service.val ELSE "B1")
    /\ UNCHANGED <<services, current_service>>
    /\ UNCHANGED <<reqVars, chunk_paths, results, splitVars, apiVars, prepVars, svcVars, concVars>>

\* SpeechServiceManager.transcribe, lines 358-364: the backend is resolved, the
\* ValueError of get_service passing to the caller, and then its transcribe is
\* called.
Transcribe(service_id) ==
    /\ Len(transcribed) < MaxTranscribeCalls
    /\ LET service == GetServiceResult(services, current_service, service_id) IN
        /\ call' = [op |-> "transcribe", arg |-> service_id, ret |-> service,
                    pre_services |-> services, pre_current |-> current_service]
        /\ transcribed' = IF service.ok THEN Append(transcribed, service.val) ELSE transcribed
    /\ UNCHANGED <<services, current_service>>
    /\ UNCHANGED <<reqVars, chunk_paths, results, splitVars, apiVars, prepVars, svcVars, concVars>>

----------------------------------------------------------------------------
(* Files *)

\* A path is its stem (the name without the extension, as a list of parts)
\* and its extension, which is what os.path.splitext splits it into.
Path(stem, ext) == [stem |-> stem, ext |-> ext]

IsFile(f, p) == p \in DOMAIN f

\* Creating or overwriting the file at p with `size` bytes.
WriteFile(f, p, size) == [q \in DOMAIN f \cup {p} |-> IF q = p THEN size ELSE f[q]]

\* os.remove / os.unlink of an existing file.
RemoveFile(f, p) == [q \in DOMAIN f \ {p} |-> f[q]]

Wrote(p) == [op |-> "write", path |-> p]

Removed(p) == [op |-> "remove", path |-> p]

RemoveFailed(p) == [op |-> "remove_failed", path |-> p]

\* The elements of a sequence.
Range(s) == {s[n] : n \in DOMAIN s}

Min(a, b) == IF a <= b THEN a ELSE b

Max(a, b) == IF a >= b THEN a ELSE b

----------------------------------------------------------------------------
(* whisper_service.py *)

MAX_FILE_SIZE_MB == 25

MAX_FILE_SIZE == MAX_FILE_SIZE_MB * 1024 * 1024

\* The safety margin and the floor of approx_chunk_ms, and the duration under
\* which split_audio stops halving a chunk.
CHUNK_MARGIN_MS == 1000

CHUNK_FLOOR_MS == 1000

HALVE_FLOOR_MS == 5000

\* The byte sizes an upload can have: at the limit, just over it, 30 MB, 50 MB.
UploadSizes == {MAX_FILE_SIZE, MAX_FILE_SIZE + 1, 30 * 1024 * 1024, 2 * MAX_FILE_SIZE}

\* The byte sizes an encoder (an export of pydub) can produce for a file.
EncodedSizes == {MAX_FILE_SIZE, MAX_FILE_SIZE + 1, 2 * MAX_FILE_SIZE}

\* The byte sizes an export of one chunk can have: it fits exactly, or not.
ChunkSizes == {MAX_FILE_SIZE, MAX_FILE_SIZE + 1}

\* The longest audio, in steps of 3 seconds.
MaxDurationSteps == 3

\* The decoded durations len(audio), in milliseconds: 0 s, 3 s, 6 s, ..., and
\* 2.4 s, a duration that the margin of one second cuts to the floor.
DurationsMs == {3000 * n : n \in 0..MaxDurationSteps} \cup {2400}

\* The extension of the uploaded file's name: suffix = splitext(filename)[1].
UploadExts == {"mp3", "m4a"}

\* The texts whisper_model.transcribe can return for a chunk, as lists of characters.
Texts == {<<"A">>, <<"B">>, <<"C">>, <<" ">>}

Requests == [content_type_ok : BOOLEAN, ext : UploadExts, size : UploadSizes,
             duration : DurationsMs]

\* The arithmetic of line 144 is Python's: the true division of two ints gives
\* the nearest double, and so does the product of an int and a float. A double
\* is kept here as its 53 binary digits and the place of its binary point
\* (file sizes under 2^30 bytes).

\* The number of significant bits of a Python float (an IEEE 754 double).
MANT_DIG == 53

\* The element of a set of one element: Only({F(v) : v \in {e}}) is F(e), with
\* e evaluated once.
Only(S) == CHOOSE v \in S : TRUE

\* A sequence in reverse order.
Mirror(s) == Only({[n \in 1..Len(v) |-> v[Len(v) + 1 - n]] : v \in {s}})

RECURSIVE NatBitsRev(_)
\* The binary digits of a natural number, least significant first.
NatBitsRev(n) == IF n = 0 THEN <<>> ELSE <<n % 2>> \o NatBitsRev(n \div 2)

RECURSIVE FirstBitsToNat(_, _)
\* The natural number whose binary digits, most significant first, are the
\* first n of bs.
FirstBitsToNat(bs, n) ==
    IF n = 0 THEN 0 ELSE 2 * FirstBitsToNat(bs, n - 1) + bs[n]

RECURSIVE IncBitsRev(_)
\* One more than the number of digits rev, least significant first.
IncBitsRev(rev) ==
    IF rev = <<>> THEN <<1>>
    ELSE IF Head(rev) = 0 THEN <<1>> \o Tail(rev) ELSE <<0>> \o IncBitsRev(Tail(rev))

RECURSIVE MulBitsRev(_, _, _)
\* d times the number of digits rev (least significant first), plus carry.
MulBitsRev(rev, d, carry) ==
    IF rev = <<>> THEN NatBitsRev(carry)
    ELSE <<(Head(rev) * d + carry) % 2>>
            \o MulBitsRev(Tail(rev), d, (Head(rev) * d + carry) \div 2)

\* The 53 digits kept, rounded up: [bits, exp], exp = 1 if the carry ran out
\* of the first digit.
RoundedUp(inc) ==
    IF Len(inc) > MANT_DIG
    THEN [bits |-> SubSeq(inc, 1, MANT_DIG), exp |-> 1]
    ELSE [bits |-> inc, exp |-> 0]

\* Rounding to 53 significant digits, to nearest, ties to even: of the digits
\* bs (most significant first, the first one 1) followed by digits that are
\* not all zero iff sticky. [bits: the 53 digits, exp: the number of digits
\* the rounded number has more than bs did].
RoundToDouble(bs, sticky) ==
    IF Len(bs) <= MANT_DIG THEN [bits |-> bs, exp |-> 0]
    ELSE IF /\ bs[MANT_DIG + 1] = 1
            /\ \/ sticky
               \/ bs[MANT_DIG] = 1
               \/ \E n \in (MANT_DIG + 2)..Len(bs) : bs[n] = 1
         THEN Only({RoundedUp(inc) :
                     inc \in {Mirror(IncBitsRev(Mirror(SubSeq(bs, 1, MANT_DIG))))}})
         ELSE [bits |-> SubSeq(bs, 1, MANT_DIG), exp |-> 0]

RECURSIVE QuotientBits(_, _, _, _)
\* The first 54 significant binary digits of a quotient, by long division: rem
\* is the remainder so far, lead the number of zeros after the binary point
\* before the first 1 (minus the number of digits before the point), bits the
\* significant digits so far. sticky: the division left a remainder.
QuotientBits(rem, o, lead, bits) ==
    IF Len(bits) = MANT_DIG + 1 \/ (rem = 0 /\ bits = <<>>)
    THEN [lead |-> lead, bits |-> bits, sticky |-> rem # 0]
    ELSE IF bits = <<>> /\ (2 * rem) \div o = 0
         THEN QuotientBits((2 * rem) % o, o, lead + 1, bits)
         ELSE QuotientBits((2 * rem) % o, o, lead, Append(bits, (2 * rem) \div o))

\* The quotient q rounded to a double r: 0.bits * 2^(-lead).
RoundedQuotient(q, r) == [bits |-> r.bits, lead |-> q.lead - r.exp]

\* max_bytes / orig_size, Python's true division of two ints: the double
\* nearest to the quotient.
TrueDiv(m, o) ==
    Only(UNION {{RoundedQuotient(q, r) : r \in {RoundToDouble(q.bits, q.sticky)}} :
                 q \in {QuotientBits(m % o, o, 0 - Len(whole), whole) :
                         whole \in {Mirror(NatBitsRev(m \div o))}}})

\* int() of the double prod, the rounded product whose exact digits were `len`
\* many: the digits of prod before its binary point.
IntOfProduct(ratio, len, prod) ==
    IF len - Len(ratio.bits) - ratio.lead + prod.exp <= 0 THEN 0
    ELSE FirstBitsToNat(prod.bits, Min(len - Len(ratio.bits) - ratio.lead + prod.exp,
                                       Len(prod.bits)))

\* dur * ratio, the product of an int and a float, then int().
IntOfScaled(dur, ratio) ==
    IF dur = 0 \/ ratio.bits = <<>> THEN 0
    ELSE Only(UNION {{IntOfProduct(ratio, Len(exact), prod) :
                        prod \in {RoundToDouble(exact, FALSE)}} :
                      exact \in {Mirror(MulBitsRev(Mirror(ratio.bits), dur, 0))}})

\* int(duration_ms * (max_bytes / orig_size)): the quotient is rounded to a
\* double, the product of the duration and that double is rounded to a double,
\* and int() drops the fraction.
ScaledDuration(dur, max_bytes, orig_size) ==
    Only({IntOfScaled(dur, ratio) : ratio \in {TrueDiv(max_bytes, orig_size)}})

ApproxChunkMsWideMargin(dur, max_bytes, orig_size) ==
    Max(ScaledDuration(dur, max_bytes, orig_size) - 2 * CHUNK_MARGIN_MS, CHUNK_FLOOR_MS)

\* approx_chunk_ms = max(int(duration_ms * (max_bytes / orig_size)) - 1000, 1000)
ApproxChunkMs(dur, max_bytes, orig_size) ==
    Max(ScaledDuration(dur, max_bytes, orig_size) - CHUNK_MARGIN_MS, CHUNK_FLOOR_MS)

\* tempfile.NamedTemporaryFile(delete=False, suffix=suffix).name
TempPath(ext) == Path(<<"tmp">>, ext)

\* convert_audio_to_mp3's output_path = os.path.splitext(file_path)[0] + ".mp3"
ConvertedPath(p) == Path(p.stem, "mp3")

\* compress_audio's compressed_path = f"{id}_compressed.mp3" beside file_path
CompressedPath(p) == Path(Append(p.stem, "compressed"), "mp3")

\* split_audio's chunk_path = f"{base}_chunk_{i}.{format}"
ChunkPath(p, n, format) == Path(p.stem \o <<"chunk", ToString(n)>>, format)

\* An exception: its type, its status code (an HTTPException's), what it says,
\* the chunk it is about (0: none) and the exception whose text its detail
\* quotes (<<>>: none).
HTTPException(status, detail, cause) ==
    [type |-> "HTTPException", status |-> status, detail |-> detail, chunk |-> 0,
     cause |-> cause]

Exception(detail, n) ==
    [type |-> "Exception", status |-> 0, detail |-> detail, chunk |-> n, cause |-> None]

\* A response: the JSON body's text on success, the error raised otherwise.
Success(text) == [status |-> 200, text |-> text, error |-> None]

Failure(e) == [status |-> e.status, text |-> <<>>, error |-> Some(e)]

\* split_audio's max_bytes at its call site, split_audio(file_path, MAX_FILE_SIZE).
max_bytes == MAX_FILE_SIZE

RECURSIVE StrJoin(_, _)
\* sep.join(parts), left to right.
StrJoin(parts, sep) ==
    IF Len(parts) = 0 THEN <<>>
    ELSE IF Len(parts) = 1 THEN parts[1]
    ELSE parts[1] \o sep \o StrJoin(Tail(parts), sep)

Whitespace == {" "}

RECURSIVE LStrip(_)
LStrip(s) == IF Len(s) > 0 /\ Head(s) \in Whitespace THEN LStrip(Tail(s)) ELSE s

RECURSIVE RStrip(_)
RStrip(s) ==
    IF Len(s) > 0 /\ s[Len(s)] \in Whitespace THEN RStrip(SubSeq(s, 1, Len(s) - 1)) ELSE s

\* str.strip()
Strip(s) == RStrip(LStrip(s))

\* The state before a request arrives: nothing on disk, no local assigned.
RequestIdle ==
    /\ fs = << >>
    /\ io = <<>>
    /\ temp_file_path = None
    /\ file_path = None
    /\ chunk_paths = <<>>
    /\ results = <<>>
    /\ transcribed = <<>>
    /\ exc = None
    /\ resp = None
    /\ file_size = 0
    /\ duration_ms = 0
    /\ approx_chunk_ms = 0
    /\ start = 0
    /\ end = 0
    /\ i = 0
    /\ chunks = <<>>
    /\ spans = <<>>
    /\ original_file_path = None
    /\ processed_file_path = None
    /\ sound = None
    /\ start_trim = 0
    /\ end_trim = 0
    /\ trimmed_sound = None

\* No backend object is under observation.
NoService == svc = None /\ svc_calls = <<>>

\* No thread is inside a call of the manager.
NoThreads == sel = None /\ res = None

\* One /transcribe request arrives at whisper_service; the startup event has
\* loaded the model, or failed to.
ServiceInit ==
    /\ ManagerInit
    /\ pc = "svc_start"
    /\ req \in Requests
    /\ whisper_model \in {None, Some("model")}
    /\ RequestIdle
    /\ NoService
    /\ NoThreads

\* transcribe_audio, lines 268-273: the content type is checked before the try.
SvcCheckContentType ==
    /\ pc = "svc_start"
    /\ IF req.content_type_ok
       THEN /\ pc' = "svc_save"
            /\ UNCHANGED resp
       ELSE /\ pc' = "done"
            /\ resp' = Some(Failure(HTTPException(400, "unsupported_type", None)))
    /\ UNCHANGED <<req, fs, io, whisper_model, temp_file_path, file_path, exc>>
    /\ UNCHANGED <<mgrVars, loopVars, splitVars, apiVars, prepVars, svcVars, concVars>>

\* transcribe_audio, lines 278-287: the upload is written to a temp file, whose
\* name is passed to transcribe_with_whisper.
SvcSaveUpload ==
    /\ pc = "svc_save"
    /\ LET p == TempPath(req.ext) IN
        /\ fs' = WriteFile(fs, p, req.size)
        /\ io' = Append(io, Wrote(p))
        /\ temp_file_path' = Some(p)
        /\ file_path' = Some(p)
    /\ pc' = "tw_model"
    /\ UNCHANGED <<req, whisper_model, exc, resp>>
    /\ UNCHANGED <<mgrVars, loopVars, splitVars, apiVars, prepVars, svcVars, concVars>>

\* transcribe_with_whisper, lines 181-183: the model is loaded if it is not yet;
\* a failed load raises outside the try.
TwEnsureModel ==
    /\ pc = "tw_model"
    /\ \/ /\ whisper_model # None
          /\ pc' = "tw_convert"
          /\ UNCHANGED <<whisper_model, exc>>
       \/ /\ whisper_model = None
          /\ whisper_model' = Some("model")
          /\ pc' = "tw_convert"
          /\ UNCHANGED exc
       \/ /\ whisper_model = None
          /\ exc' = Some(HTTPException(500, "load_failed", None))
          /\ pc' = "svc_except"
          /\ UNCHANGED whisper_model
    /\ UNCHANGED <<req, fs, io, temp_file_path, file_path, resp>>
    /\ UNCHANGED <<mgrVars, loopVars, splitVars, apiVars, prepVars, svcVars, concVars>>

\* transcribe_with_whisper, lines 187-190, with convert_audio_to_mp3: whether
\* the codec needs converting is the file's; a failed conversion returns None.
TwConvert ==
    /\ pc = "tw_convert"
    /\ \/ /\ pc' = "tw_compress"
          /\ UNCHANGED <<fs, io, file_path, exc>>
       \/ \E size \in EncodedSizes :
            LET output_path == ConvertedPath(file_path[1]) IN
            /\ fs' = WriteFile(fs, output_path, size)
            /\ io' = Append(io, Wrote(output_path))
            /\ file_path' = Some(output_path)
            /\ pc' = "tw_compress"
            /\ UNCHANGED exc
       \/ /\ file_path' = None
          /\ exc' = Some(HTTPException(400, "convert_failed", None))
          /\ pc' = "tw_except"
          /\ UNCHANGED <<fs, io>>
    /\ UNCHANGED <<req, whisper_model, temp_file_path, resp>>
    /\ UNCHANGED <<mgrVars, loopVars, splitVars, apiVars, prepVars, svcVars, concVars>>

\* transcribe_with_whisper, lines 192-195, with compress_audio: a file over
\* MAX_FILE_SIZE is re-encoded beside itself; an exception is logged and the
\* path kept.
TwCompress ==
    /\ pc = "tw_compress"
    /\ \/ /\ fs[file_path[1]] > MAX_FILE_SIZE
          /\ \E size \in EncodedSizes :
                LET compressed_path == CompressedPath(file_path[1]) IN
                /\ fs' = WriteFile(fs, compressed_path, size)
                /\ io' = Append(io, Wrote(compressed_path))
                /\ file_path' = Some(compressed_path)
       \/ /\ fs[file_path[1]] > MAX_FILE_SIZE
          /\ UNCHANGED <<fs, io, file_path>>
       \/ /\ ~(fs[file_path[1]] > MAX_FILE_SIZE)
          /\ UNCHANGED <<fs, io, file_path>>
    /\ pc' = "split_entry"
    /\ UNCHANGED <<req, whisper_model, temp_file_path, exc, resp>>
    /\ UNCHANGED <<mgrVars, loopVars, splitVars, apiVars, prepVars, svcVars, concVars>>

FitsWholeBelowLimit(size, limit) == size < limit

\* split_audio, line 137: file_size <= max_bytes, no split is needed.
FitsWhole(size, limit) == size <= limit

\* split_audio, lines 136-149: a file that fits is returned as it is; otherwise
\* the audio is decoded and the chunk duration estimated.
SplitEnter ==
    /\ pc = "split_entry"
    /\ file_size' = fs[file_path[1]]
    /\ IF FitsWhole(file_size', max_bytes)
       THEN /\ chunk_paths' = <<file_path[1]>>
            /\ pc' = "tw_loop"
            /\ UNCHANGED <<duration_ms, approx_chunk_ms, exc>>
       ELSE \/ /\ duration_ms' = req.duration
               /\ approx_chunk_ms' = ApproxChunkMs(req.duration, max_bytes, file_size')
               /\ pc' = "split_loop"
               /\ UNCHANGED <<chunk_paths, exc>>
            \/ /\ exc' = Some(Exception("decode_failed", 0))
               /\ pc' = "tw_except"
               /\ UNCHANGED <<duration_ms, approx_chunk_ms, chunk_paths>>
    /\ start' = 0
    /\ i' = 0
    /\ chunks' = <<>>
    /\ spans' = <<>>
    /\ UNCHANGED <<end, results, transcribed>>
    /\ UNCHANGED <<req, fs, io, whisper_model, temp_file_path, file_path, resp>>
    /\ UNCHANGED <<mgrVars, apiVars, prepVars, svcVars, concVars>>

\* split_audio, lines 151-155: the next chunk is cut and exported.
SplitExport ==
    /\ pc = "split_loop"
    /\ start < duration_ms
    /\ end' = Min(start + approx_chunk_ms, duration_ms)
    /\ \E size \in ChunkSizes :
        LET chunk_path == ChunkPath(file_path[1], i, "mp3") IN
        /\ fs' = WriteFile(fs, chunk_path, size)
        /\ io' = Append(io, Wrote(chunk_path))
    /\ pc' = "split_shrink"
    /\ UNCHANGED <<file_size, duration_ms, approx_chunk_ms, start, i, chunks, spans>>
    /\ UNCHANGED <<req, whisper_model, temp_file_path, file_path, exc, resp>>
    /\ UNCHANGED <<mgrVars, loopVars, apiVars, prepVars, svcVars, concVars>>

SplitHalveLowFloor ==
    /\ pc = "split_shrink"
    /\ LET chunk_path == ChunkPath(file_path[1], i, "mp3") IN
        /\ fs[chunk_path] > max_bytes /\ (end - start) > CHUNK_FLOOR_MS
        /\ end' = start + ((end - start) \div 2)
        /\ \E size \in ChunkSizes :
            /\ fs' = WriteFile(fs, chunk_path, size)
            /\ io' = Append(io, Wrote(chunk_path))
    /\ UNCHANGED <<file_size, duration_ms, approx_chunk_ms, start, i, chunks, spans>>
    /\ UNCHANGED <<pc, req, whisper_model, temp_file_path, file_path, exc, resp>>
    /\ UNCHANGED <<mgrVars, loopVars, apiVars, prepVars, svcVars, concVars>>

\* split_audio, lines 158-161: a chunk that is too large and longer than 5 s is
\* halved and exported again to the same path.
SplitHalve ==
    /\ pc = "split_shrink"
    /\ LET chunk_path == ChunkPath(file_path[1], i, "mp3") IN
        /\ fs[chunk_path] > max_bytes /\ (end - start) > HALVE_FLOOR_MS
        /\ end' = start + ((end - start) \div 2)
        /\ \E size \in ChunkSizes :
            /\ fs' = WriteFile(fs, chunk_path, size)
            /\ io' = Append(io, Wrote(chunk_path))
    /\ UNCHANGED <<file_size, duration_ms, approx_chunk_ms, start, i, chunks, spans>>
    /\ UNCHANGED <<pc, req, whisper_model, temp_file_path, file_path, exc, resp>>
    /\ UNCHANGED <<mgrVars, loopVars, apiVars, prepVars, svcVars, concVars>>

SplitCheckAcceptsOversize ==
    /\ pc = "split_shrink"
    /\ LET chunk_path == ChunkPath(file_path[1], i, "mp3") IN
        /\ ~(fs[chunk_path] > max_bytes /\ (end - start) > HALVE_FLOOR_MS)
        /\ chunks' = Append(chunks, chunk_path)
        /\ spans' = Append(spans, <<start, end>>)
        /\ start' = end
        /\ i' = i + 1
        /\ pc' = "split_loop"
        /\ UNCHANGED <<fs, io, exc>>
    /\ UNCHANGED <<file_size, duration_ms, approx_chunk_ms, end>>
    /\ UNCHANGED <<req, whisper_model, temp_file_path, file_path, resp>>
    /\ UNCHANGED <<mgrVars, loopVars, apiVars, prepVars, svcVars, concVars>>

SplitCheckAdvancesByEstimate ==
    /\ pc = "split_shrink"
    /\ LET chunk_path == ChunkPath(file_path[1], i, "mp3") IN
        /\ ~(fs[chunk_path] > max_bytes /\ (end - start) > HALVE_FLOOR_MS)
        /\ IF fs[chunk_path] > max_bytes
           THEN /\ fs' = RemoveFile(fs, chunk_path)
                /\ io' = Append(io, Removed(chunk_path))
                /\ exc' = Some(Exception("chunk_too_large", 0))
                /\ pc' = "tw_except"
                /\ UNCHANGED <<start, i, chunks, spans>>
           ELSE /\ chunks' = Append(chunks, chunk_path)
                /\ spans' = Append(spans, <<start, end>>)
                /\ start' = Min(start + approx_chunk_ms, duration_ms)
                /\ i' = i + 1
                /\ pc' = "split_loop"
                /\ UNCHANGED <<fs, io, exc>>
    /\ UNCHANGED <<file_size, duration_ms, approx_chunk_ms, end>>
    /\ UNCHANGED <<req, whisper_model, temp_file_path, file_path, resp>>
    /\ UNCHANGED <<mgrVars, loopVars, apiVars, prepVars, svcVars, concVars>>

\* split_audio, lines 163-169: a chunk still too large is removed and the split
\* fails; a chunk that fits is appended and the next one starts at its end.
SplitCheck ==
    /\ pc = "split_shrink"
    /\ LET chunk_path == ChunkPath(file_path[1], i, "mp3") IN
        /\ ~(fs[chunk_path] > max_bytes /\ (end - start) > HALVE_FLOOR_MS)
        /\ IF fs[chunk_path] > max_bytes
           THEN /\ fs' = RemoveFile(fs, chunk_path)
                /\ io' = Append(io, Removed(chunk_path))
                /\ exc' = Some(Exception("chunk_too_large", 0))
                /\ pc' = "tw_except"
                /\ UNCHANGED <<start, i, chunks, spans>>
           ELSE /\ chunks' = Append(chunks, chunk_path)
                /\ spans' = Append(spans, <<start, end>>)
                /\ start' = end
                /\ i' = i + 1
                /\ pc' = "split_loop"
                /\ UNCHANGED <<fs, io, exc>>
    /\ UNCHANGED <<file_size, duration_ms, approx_chunk_ms, end>>
    /\ UNCHANGED <<req, whisper_model, temp_file_path, file_path, resp>>
    /\ UNCHANGED <<mgrVars, loopVars, apiVars, prepVars, svcVars, concVars>>

\* split_audio, lines 151 and 171: the loop ends and the chunks are returned.
SplitReturn ==
    /\ pc = "split_loop"
    /\ ~(start < duration_ms)
    /\ chunk_paths' = chunks
    /\ pc' = "tw_loop"
    /\ UNCHANGED <<results, transcribed>>
    /\ UNCHANGED <<req, fs, io, whisper_model, temp_file_path, file_path, exc, resp>>
    /\ UNCHANGED <<mgrVars, splitVars, apiVars, prepVars, svcVars, concVars>>

\* transcribe_with_whisper, lines 203-218: the next chunk is transcribed and its
\* text appended; an exception of the model leaves the loop.
TwTranscribeChunk ==
    /\ pc = "tw_loop"
    /\ Len(results) < Len(chunk_paths)
    /\ LET n == Len(results) + 1 IN
        /\ transcribed' = Append(transcribed, chunk_paths[n])
        /\ \/ \E text \in Texts :
                /\ results' = Append(results, text)
                /\ UNCHANGED <<pc, exc>>
           \/ /\ exc' = Some(Exception("transcribe_error", n))
              /\ pc' = "tw_finally"
              /\ UNCHANGED results
    /\ UNCHANGED <<chunk_paths, req, fs, io, whisper_model, temp_file_path, file_path, resp>>
    /\ UNCHANGED <<mgrVars, splitVars, apiVars, prepVars, svcVars, concVars>>

\* transcribe_with_whisper, line 203: the loop has gone through every chunk.
TwLoopDone ==
    /\ pc = "tw_loop"
    /\ ~(Len(results) < Len(chunk_paths))
    /\ pc' = "tw_finally"
    /\ UNCHANGED <<req, fs, io, whisper_model, temp_file_path, file_path, exc, resp>>
    /\ UNCHANGED <<mgrVars, loopVars, splitVars, apiVars, prepVars, svcVars, concVars>>

RECURSIVE CleanupChunks(_, _, _, _)
\* Lines 221-226 over `paths`: each chunk other than `keep` that is a file is
\* removed; a removal that fails (those of `failing`) is passed over.
CleanupChunks(paths, keep, disk, failing) ==
    IF paths = <<>> THEN disk
    ELSE LET p == Head(paths)
             next == IF p # keep /\ IsFile(disk.fs, p)
                     THEN (IF p \in failing
                           THEN [fs |-> disk.fs, io |-> Append(disk.io, RemoveFailed(p))]
                           ELSE [fs |-> RemoveFile(disk.fs, p),
                                 io |-> Append(disk.io, Removed(p))])
                     ELSE disk
         IN CleanupChunks(Tail(paths), keep, next, failing)

TwFinallySwallows ==
    /\ pc = "tw_finally"
    /\ \E failing \in SUBSET (Range(chunk_paths) \ {file_path[1]}) :
        LET after == CleanupChunks(chunk_paths, file_path[1], [fs |-> fs, io |-> io], failing)
        IN /\ fs' = after.fs
           /\ io' = after.io
    /\ pc' = "tw_return"
    /\ exc' = None
    /\ UNCHANGED <<req, whisper_model, temp_file_path, file_path, resp>>
    /\ UNCHANGED <<mgrVars, loopVars, splitVars, apiVars, prepVars, svcVars, concVars>>

\* transcribe_with_whisper, lines 219-226: the finally of the loop removes the
\* chunk files, then the exception goes on or line 228 is reached.
TwFinally ==
    /\ pc = "tw_finally"
    /\ \E failing \in SUBSET (Range(chunk_paths) \ {file_path[1]}) :
        LET after == CleanupChunks(chunk_paths, file_path[1], [fs |-> fs, io |-> io], failing)
        IN /\ fs' = after.fs
           /\ io' = after.io
    /\ pc' = IF exc # None THEN "tw_except" ELSE "tw_return"
    /\ UNCHANGED <<req, whisper_model, temp_file_path, file_path, exc, resp>>
    /\ UNCHANGED <<mgrVars, loopVars, splitVars, apiVars, prepVars, svcVars, concVars>>

TwReturnUnseparated ==
    /\ pc = "tw_return"
    /\ resp' = Some(Success(Strip(StrJoin(results, <<>>))))
    /\ pc' = "svc_finally"
    /\ UNCHANGED <<req, fs, io, whisper_model, temp_file_path, file_path, exc>>
    /\ UNCHANGED <<mgrVars, loopVars, splitVars, apiVars, prepVars, svcVars, concVars>>

\* transcribe_with_whisper, line 228, and transcribe_audio, lines 287-295: the
\* texts are joined and returned as the response's text.
TwReturn ==
    /\ pc = "tw_return"
    /\ resp' = Some(Success(Strip(StrJoin(results, <<" ">>))))
    /\ pc' = "svc_finally"
    /\ UNCHANGED <<req, fs, io, whisper_model, temp_file_path, file_path, exc>>
    /\ UNCHANGED <<mgrVars, loopVars, splitVars, apiVars, prepVars, svcVars, concVars>>

\* transcribe_with_whisper, lines 229-231: any exception of the try becomes an
\* HTTPException 500 quoting it.
TwExcept ==
    /\ pc = "tw_except"
    /\ exc' = Some(HTTPException(500, "transcribe_failed", exc))
    /\ pc' = "svc_except"
    /\ UNCHANGED <<req, fs, io, whisper_model, temp_file_path, file_path, resp>>
    /\ UNCHANGED <<mgrVars, loopVars, splitVars, apiVars, prepVars, svcVars, concVars>>

\* transcribe_audio, lines 296-298: any exception of the try becomes an
\* HTTPException 500 quoting it.
SvcExcept ==
    /\ pc = "svc_except"
    /\ resp' = Some(Failure(HTTPException(500, "request_failed", exc)))
    /\ exc' = None
    /\ pc' = "svc_finally"
    /\ UNCHANGED <<req, fs, io, whisper_model, temp_file_path, file_path>>
    /\ UNCHANGED <<mgrVars, loopVars, splitVars, apiVars, prepVars, svcVars, concVars>>

\* transcribe_audio, lines 299-302: the temp file is unlinked if it exists; an
\* unlink that raises replaces the response.
SvcFinally ==
    /\ pc = "svc_finally"
    /\ IF temp_file_path # None /\ IsFile(fs, temp_file_path[1])
       THEN \/ /\ fs' = RemoveFile(fs, temp_file_path[1])
               /\ io' = Append(io, Removed(temp_file_path[1]))
               /\ UNCHANGED resp
            \/ /\ io' = Append(io, RemoveFailed(temp_file_path[1]))
               /\ resp' = Some(Failure(HTTPException(500, "unlink_failed", None)))
               /\ UNCHANGED fs
       ELSE UNCHANGED <<fs, io, resp>>
    /\ pc' = "done"
    /\ UNCHANGED <<req, whisper_model, temp_file_path, file_path, exc>>
    /\ UNCHANGED <<mgrVars, loopVars, splitVars, apiVars, prepVars, svcVars, concVars>>

ServiceNext ==
    \/ SvcCheckContentType
    \/ SvcSaveUpload
    \/ TwEnsureModel
    \/ TwConvert
    \/ TwCompress
    \/ SplitEnter
    \/ SplitExport
    \/ SplitHalve
    \/ SplitCheck
    \/ SplitReturn
    \/ TwTranscribeChunk
    \/ TwLoopDone
    \/ TwFinally
    \/ TwReturn
    \/ TwExcept
    \/ SvcExcept
    \/ SvcFinally

\* One /transcribe request of whisper_service.
SpecService == ServiceInit /\ [][ServiceNext]_vars

\* The files handed to split_audio on its own: the mp3 uploads of the model
\* and one of 38.28 MB (25 MB * 49 / 32) that lasts 4.9 s, for which
\* max_bytes / orig_size = 32/49 is not a double and the exact product of the
\* duration and the quotient is an integer.
SplitRequests ==
    {r \in Requests : r.content_type_ok /\ r.ext = "mp3"}
        \cup {[content_type_ok |-> TRUE, ext |-> "mp3", size |-> 40140800, duration |-> 4900]}

\* split_audio on its own, entered as transcribe_with_whisper enters it for an
\* mp3 upload that was neither converted nor compressed: the upload is on disk
\* under its temp path, which is the path handed to split_audio.
SplitInit ==
    /\ ManagerInit
    /\ NoService
    /\ NoThreads
    /\ pc = "split_entry"
    /\ req \in SplitRequests
    /\ whisper_model = Some("model")
    /\ temp_file_path = Some(TempPath(req.ext))
    /\ file_path = Some(TempPath(req.ext))
    /\ fs = WriteFile(<< >>, TempPath(req.ext), req.size)
    /\ io = <<Wrote(TempPath(req.ext))>>
    /\ chunk_paths = <<>> /\ results = <<>> /\ transcribed = <<>>
    /\ exc = None /\ resp = None
    /\ file_size = 0 /\ duration_ms = 0 /\ approx_chunk_ms = 0
    /\ start = 0 /\ end = 0 /\ i = 0 /\ chunks = <<>> /\ spans = <<>>
    /\ original_file_path = None /\ processed_file_path = None
    /\ sound = None /\ start_trim = 0 /\ end_trim = 0 /\ trimmed_sound = None

\* The steps of split_audio's loops, lines 151-171.
SplitLoopNext ==
    \/ SplitExport
    \/ SplitHalve
    \/ SplitCheck
    \/ SplitReturn

SplitNext ==
    \/ SplitEnter
    \/ SplitLoopNext

\* split_audio is a sequential function run by the one thread that called it:
\* once it is in its loop, a step that can be taken is taken.
SpecSplit == SplitInit /\ [][SplitNext]_vars /\ WF_vars(SplitLoopNext)

----------------------------------------------------------------------------
(* TTS/whisper_api.py *)

\* The least number of bytes an upload must have (line 241).
MIN_HEADER_BYTES == 44

\* The byte lengths of an upload: empty, under the header size, at it.
ApiUploadSizes == {0, MIN_HEADER_BYTES - 1, MIN_HEADER_BYTES}

\* The extension of the upload's name; a name without one gets "wav" (line 245).
ApiUploadExts == {"wav", "mp3"}

\* The texts a backend can return.
ApiTexts == {<<"A">>, <<>>}

ApiRequests == [content_type_ok : BOOLEAN, ext : ApiUploadExts, size : ApiUploadSizes,
                service_id : OptServiceIds]

\* f"{CACHE_DIR}/audio/transcriptions/{temp_file_id}.{file_ext}" with a fresh uuid4
OriginalPath(ext) == Path(<<"uuid_upload">>, ext)

\* preprocess_audio's output_path: another fresh uuid4 in the same directory, ".wav"
PreprocessedPath == Path(<<"uuid_processed">>, "wav")

\* preprocess_audio's defaults (line 104).
silence_threshold == -50

min_silence_len == 500

\* The least length, in ms, of a trimmed sound that is kept (line 141).
MIN_TRIMMED_MS == 1000

\* A decoded sound is a sequence of runs of one loudness each; the lengths are
\* multiples of pydub's 10 ms detection chunk, so that no chunk straddles two runs.
RunLengthsMs == {200, 500, 1000}

\* Loudness of a run: below, at and above the default threshold.
RunLevels == {silence_threshold - 10, silence_threshold, silence_threshold + 10}

MaxRuns == 3

Runs == [ms : RunLengthsMs, dBFS : RunLevels]

Sounds == UNION {[1..n -> Runs] : n \in 0..MaxRuns}

\* len(sound), in ms
RECURSIVE SoundLen(_)
SoundLen(s) == IF s = <<>> THEN 0 ELSE Head(s).ms + SoundLen(Tail(s))

\* sound.reverse()
Reverse(s) == [n \in 1..Len(s) |-> s[Len(s) + 1 - n]]

\* pydub.silence.detect_leading_silence(sound, silence_threshold): the length of
\* the leading chunks whose dBFS is below the threshold, at most len(sound).
RECURSIVE detect_leading_silence(_, _)
detect_leading_silence(s, threshold) ==
    IF s = <<>> THEN 0
    ELSE IF Head(s).dBFS < threshold
    THEN Head(s).ms + detect_leading_silence(Tail(s), threshold)
    ELSE 0

\* sound[from:to] of a sound n ms long, for from, to >= 0: both ends are clamped
\* to n, and an end before the start gives the empty segment.
Slice(n, from, to) == <<Min(from, n), Max(Min(from, n), Min(to, n))>>

\* len() of a segment
SegLen(seg) == seg[2] - seg[1]

KeepsTrimAlways(trimmed) == TRUE

\* preprocess_audio, line 141: a trimmed sound shorter than 1 s is given up.
KeepsTrim(trimmed) == ~(SegLen(trimmed) < MIN_TRIMMED_MS)

\* create_speech_service_manager(config) with the config of whisper_api.py:
\* local_whisper is registered and is the default service.
ApiInit ==
    /\ services = [k \in {"local_whisper"} |-> "B1"]
    /\ current_service = Some("local_whisper")
    /\ call = NoCall
    /\ pc = "api_start"
    /\ req \in ApiRequests
    /\ whisper_model = None
    /\ RequestIdle
    /\ NoService
    /\ NoThreads

\* transcribe_audio, lines 225-230: the content type is checked before the try.
ApiCheckContentType ==
    /\ pc = "api_start"
    /\ IF req.content_type_ok
       THEN /\ pc' = "api_read"
            /\ UNCHANGED resp
       ELSE /\ pc' = "done"
            /\ resp' = Some(Failure(HTTPException(415, "unsupported_type", None)))
    /\ UNCHANGED <<req, fs, io, whisper_model, temp_file_path, file_path, exc>>
    /\ UNCHANGED <<mgrVars, loopVars, splitVars, apiVars, prepVars, svcVars, concVars>>

ApiSaveUploadAcceptsShort ==
    /\ pc = "api_read"
    /\ IF req.size = 0
       THEN /\ resp' = Some(Failure(HTTPException(400, "empty_file", None)))
            /\ pc' = "done"
            /\ UNCHANGED <<fs, io, original_file_path>>
       ELSE /\ original_file_path' = Some(OriginalPath(req.ext))
            /\ fs' = WriteFile(fs, OriginalPath(req.ext), req.size)
            /\ io' = Append(io, Wrote(OriginalPath(req.ext)))
            /\ pc' = "api_preprocess"
            /\ UNCHANGED resp
    /\ UNCHANGED <<req, whisper_model, temp_file_path, file_path, exc, processed_file_path>>
    /\ UNCHANGED <<mgrVars, loopVars, splitVars, prepVars, svcVars, concVars>>

\* transcribe_audio, lines 234-253: an empty or too short upload is refused (the
\* HTTPException passes through line 291); otherwise it is written to disk.
ApiSaveUpload ==
    /\ pc = "api_read"
    /\ IF req.size = 0
       THEN /\ resp' = Some(Failure(HTTPException(400, "empty_file", None)))
            /\ pc' = "done"
            /\ UNCHANGED <<fs, io, original_file_path>>
       ELSE IF req.size < MIN_HEADER_BYTES
       THEN /\ resp' = Some(Failure(HTTPException(400, "invalid_format", None)))
            /\ pc' = "done"
            /\ UNCHANGED <<fs, io, original_file_path>>
       ELSE /\ original_file_path' = Some(OriginalPath(req.ext))
            /\ fs' = WriteFile(fs, OriginalPath(req.ext), req.size)
            /\ io' = Append(io, Wrote(OriginalPath(req.ext)))
            /\ pc' = "api_preprocess"
            /\ UNCHANGED resp
    /\ UNCHANGED <<req, whisper_model, temp_file_path, file_path, exc, processed_file_path>>
    /\ UNCHANGED <<mgrVars, loopVars, splitVars, prepVars, svcVars, concVars>>

\* transcribe_audio, line 256, with preprocess_audio, lines 118-165: the file is
\* decoded, the silence at both ends is cut unless that leaves under 1 s, and
\* the WAV is exported to a new path; or the file cannot be decoded, the
\* exception is logged and the path given back.
ApiPreprocess ==
    /\ pc = "api_preprocess"
    /\ \/ \E s \in Sounds, size \in {MIN_HEADER_BYTES, 2 * MIN_HEADER_BYTES} :
            LET trimmed == Slice(SoundLen(s), detect_leading_silence(s, silence_threshold),
                                 SoundLen(s) - detect_leading_silence(Reverse(s), silence_threshold))
            IN
            /\ sound' = Some(s)
            /\ start_trim' = detect_leading_silence(s, silence_threshold)
            /\ end_trim' = detect_leading_silence(Reverse(s), silence_threshold)
            /\ trimmed_sound' = Some(IF KeepsTrim(trimmed) THEN trimmed ELSE <<0, SoundLen(s)>>)
            /\ fs' = WriteFile(fs, PreprocessedPath, size)
            /\ io' = Append(io, Wrote(PreprocessedPath))
            /\ processed_file_path' = Some(PreprocessedPath)
       \/ /\ processed_file_path' = original_file_path
          /\ UNCHANGED <<fs, io, prepVars>>
    /\ pc' = "api_transcribe"
    /\ UNCHANGED <<req, whisper_model, temp_file_path, file_path, exc, resp, original_file_path>>
    /\ UNCHANGED <<mgrVars, loopVars, splitVars, svcVars, concVars>>

\* transcribe_audio, lines 259-281, with SpeechServiceManager.transcribe: the
\* backend is resolved and called; any exception becomes an HTTPException 500.
ApiTranscribe ==
    /\ pc = "api_transcribe"
    /\ LET service == GetServiceResult(services, current_service, req.service_id) IN
       IF ~service.ok
       THEN /\ resp' = Some(Failure(HTTPException(500, "transcribe_failed",
                                        Some(Exception("ValueError", 0)))))
            /\ UNCHANGED transcribed
       ELSE /\ transcribed' = Append(transcribed, processed_file_path[1])
            /\ \/ \E text \in ApiTexts : resp' = Some(Success(text))
               \/ resp' = Some(Failure(HTTPException(500, "transcribe_failed",
                                        Some(Exception("backend_error", 0)))))
    /\ pc' = "api_finally"
    /\ UNCHANGED <<chunk_paths, results>>
    /\ UNCHANGED <<req, fs, io, whisper_model, temp_file_path, file_path, exc>>
    /\ UNCHANGED <<mgrVars, splitVars, apiVars, prepVars, svcVars, concVars>>

ApiFinallyKeepsProcessed ==
    /\ pc = "api_finally"
    /\ LET orig == original_file_path[1] IN
       \/ /\ fs' = RemoveFile(fs, orig)
          /\ io' = Append(io, Removed(orig))
       \/ /\ io' = Append(io, RemoveFailed(orig))
          /\ UNCHANGED fs
    /\ pc' = "done"
    /\ UNCHANGED <<req, whisper_model, temp_file_path, file_path, exc, resp>>
    /\ UNCHANGED <<mgrVars, loopVars, splitVars, apiVars, prepVars, svcVars, concVars>>

\* transcribe_audio, lines 282-289: the preprocessed file, if it is another
\* file, then the original are unlinked in one try; the first unlink that
\* raises ends the cleanup and is logged.
ApiFinally ==
    /\ pc = "api_finally"
    /\ LET orig == original_file_path[1]
           proc == processed_file_path[1]
       IN IF orig # proc
          THEN \/ /\ fs' = RemoveFile(RemoveFile(fs, proc), orig)
                  /\ io' = io \o <<Removed(proc), Removed(orig)>>
               \/ /\ fs' = RemoveFile(fs, proc)
                  /\ io' = io \o <<Removed(proc), RemoveFailed(orig)>>
               \/ /\ io' = Append(io, RemoveFailed(proc))
                  /\ UNCHANGED fs
          ELSE \/ /\ fs' = RemoveFile(fs, orig)
                  /\ io' = Append(io, Removed(orig))
               \/ /\ io' = Append(io, RemoveFailed(orig))
                  /\ UNCHANGED fs
    /\ pc' = "done"
    /\ UNCHANGED <<req, whisper_model, temp_file_path, file_path, exc, resp>>
    /\ UNCHANGED <<mgrVars, loopVars, splitVars, apiVars, prepVars, svcVars, concVars>>

ApiNext ==
    \/ ApiCheckContentType
    \/ ApiSaveUpload
    \/ ApiPreprocess
    \/ ApiTranscribe
    \/ ApiFinally

\* One /transcribe request of whisper_api.
SpecApi == ApiInit /\ [][ApiNext]_vars

----------------------------------------------------------------------------
(* The registry on its own: any sequence of calls *)

\* whisper_api's POST /change-service, lines 301-310: the id is selected if it
\* is registered; otherwise the handler raises HTTPException(404) inside its own
\* try, whose `except Exception` answers 500 quoting it.
ChangeService(service_id) ==
    /\ IF service_id \notin DOMAIN services
       THEN /\ UNCHANGED current_service
            /\ resp' = Some(Failure(HTTPException(500, "request_failed",
                            Some(HTTPException(404, "service_not_found", None)))))
       ELSE /\ current_service' = Some(service_id)
            /\ resp' = Some(Success(<<"ok">>))
    /\ call' = [op |-> "change_service", arg |-> Some(service_id),
                ret |-> Returned(IF service_id \in DOMAIN services THEN "True" ELSE "False"),
                pre_services |-> services, pre_current |-> current_service]
    /\ UNCHANGED services
    /\ UNCHANGED <<pc, req, fs, io, whisper_model, temp_file_path, file_path, exc>>
    /\ UNCHANGED <<loopVars, splitVars, apiVars, prepVars, svcVars, concVars>>

MgrInit ==
    /\ ManagerInit
    /\ pc = "idle"
    /\ req = [content_type_ok |-> TRUE, ext |-> "mp3", size |-> 0, duration |-> 0]
    /\ whisper_model = None
    /\ RequestIdle
    /\ NoService
    /\ NoThreads

MgrNext ==
    \/ \E s \in ServiceIds, b \in Backends : RegisterService(s, b)
    \/ \E s \in ServiceIds : SetCurrentService(s)
    \/ \E o \in OptServiceIds : GetService(o)
    \/ \E o \in OptServiceIds : Transcribe(o)
    \/ \E s \in ServiceIds : ChangeService(s)

SpecMgr == MgrInit /\ [][MgrNext]_vars

----------------------------------------------------------------------------
(* TTS/speech_service.py: the backends *)

ServiceClasses == {"LocalWhisperService", "RemoteWhisperService",
                   "OpenAIWhisperService", "DeepgramService"}

\* A backend object: its class and the fields its methods read. api_url is
\* RemoteWhisperService.api_url and OpenAIWhisperService.api_base_url.
Service(cls, model, api_key, api_url) ==
    [cls |-> cls, model |-> model, api_key |-> api_key, api_url |-> api_url]

\* The objects the constructors build, with and without the URL or key that
\* initialize looks for; a LocalWhisperService may have had its model loaded
\* by startup_event.
ServiceObjects ==
    {Service("LocalWhisperService", mdl, "", "") : mdl \in {None, Some("WhisperModel")}}
    \cup {Service("RemoteWhisperService", None, "", u) : u \in {"", "url"}}
    \cup {Service("OpenAIWhisperService", Some("whisper-1"), k, u) :
            k \in {"", "key"}, u \in {"", "url"}}
    \cup {Service("DeepgramService", None, k, "") : k \in {"", "key"}}

\* The exceptions raised under a backend's transcribe: by open(), by the model
\* or by requests, and by the parsing of Deepgram's answer.
UnderlyingErrors(cls) ==
    CASE cls = "LocalWhisperService" -> {"FileNotFoundError", "InvalidDataError"}
      [] cls = "DeepgramService" -> {"FileNotFoundError", "ConnectionError", "HTTPError", "KeyError"}
      [] OTHER -> {"FileNotFoundError", "ConnectionError", "Timeout", "HTTPError"}

\* initialize(): the value it returns and the object it leaves. Loading the
\* local model may fail; the others look at their configuration only.
Initialize(s) ==
    CASE s.cls = "LocalWhisperService" ->
            {[ret |-> TRUE, svc |-> [s EXCEPT !.model = Some("WhisperModel")]],
             [ret |-> FALSE, svc |-> s]}
      [] s.cls = "RemoteWhisperService" -> {[ret |-> s.api_url # "", svc |-> s]}
      [] s.cls = "OpenAIWhisperService" ->
            {[ret |-> s.api_key # "" /\ s.api_url # "", svc |-> s]}
      [] OTHER -> {[ret |-> s.api_key # "", svc |-> s]}

\* Whether transcribe begins by calling initialize: LocalWhisperService when it
\* has no model (line 86), RemoteWhisperService never, the other two always
\* (lines 228 and 277).
CallsInitialize(s) ==
    CASE s.cls = "LocalWhisperService" -> s.model = None
      [] s.cls = "RemoteWhisperService" -> FALSE
      [] OTHER -> TRUE

\* The exception that leaves transcribe when e is raised in its try block:
\* LocalWhisperService logs and re-raises it (lines 105-107), the others raise
\* a RuntimeError in its place.
Raises(cls, e) == IF cls = "LocalWhisperService" THEN e ELSE "RuntimeError"

\* How the try block of transcribe can end: <<>> for a result, or the
\* exception leaving it. Without a URL requests.post cannot succeed.
Outcomes(s) ==
    {Some(Raises(s.cls, e)) : e \in UnderlyingErrors(s.cls)}
    \cup (IF s.cls = "RemoteWhisperService" /\ s.api_url = "" THEN {} ELSE {None})

\* One call of transcribe: the object it was called on, what initialize
\* returned, if it was called, whether the try block with the model or the API
\* was entered, and what was raised.
Call(s, init, invoked, raised) ==
    [svc |-> s, initialize |-> init, invoked |-> invoked, raised |-> raised]

MaxServiceCalls == 3

\* A backend object has just been built, or preloaded at startup.
SvcInit ==
    /\ ManagerInit
    /\ pc = "idle"
    /\ req = [content_type_ok |-> TRUE, ext |-> "mp3", size |-> 0, duration |-> 0]
    /\ whisper_model = None
    /\ RequestIdle
    /\ svc \in {Some(s) : s \in ServiceObjects}
    /\ svc_calls = <<>>
    /\ NoThreads

\* transcribe(audio_file, language) of the four backends.
SvcTranscribe ==
    /\ svc # None
    /\ Len(svc_calls) < MaxServiceCalls
    /\ LET s == svc[1] IN
       IF CallsInitialize(s)
       THEN \E r \in Initialize(s) :
               /\ svc' = Some(r.svc)
               /\ IF r.ret
                  THEN \E o \in Outcomes(r.svc) :
                         svc_calls' = Append(svc_calls, Call(s, <<TRUE>>, TRUE, o))
                  ELSE svc_calls' = Append(svc_calls,
                                           Call(s, <<FALSE>>, FALSE, Some("RuntimeError")))
       ELSE /\ \E o \in Outcomes(s) :
                 svc_calls' = Append(svc_calls, Call(s, <<>>, TRUE, o))
            /\ UNCHANGED svc
    /\ UNCHANGED <<mgrVars, reqVars, loopVars, splitVars, apiVars, prepVars, concVars>>

SvcNext == SvcTranscribe

\* Any sequence of transcribe calls on one backend object.
SpecBackend == SvcInit /\ [][SvcNext]_vars

----------------------------------------------------------------------------
(* SpeechServiceManager under concurrent calls *)

\* The ids a request can name: two that create_speech_service_manager
\* registers and one that it does not.
RequestIds == {"local_whisper", "deepgram", "remote_whisper"}

\* The registries create_speech_service_manager can leave, each id with its
\* own backend object.
Registries ==
    {[k \in ks |-> IF k = "local_whisper" THEN "B1" ELSE "B2"] :
        ks \in SUBSET {"local_whisper", "deepgram"}}

\* A thread's frame in set_current_service and in get_service.
SelFrame(at, service_id, ret) == [pc |-> at, service_id |-> service_id, ret |-> ret]

ResFrame(at, service_id, sid, ret, seen) ==
    [pc |-> at, service_id |-> service_id, sid |-> sid, ret |-> ret, seen |-> seen]

\* A thread is not inside its call.
Outside(t) == IF t = None THEN TRUE ELSE t[1].pc = "done"

\* The manager as create_speech_service_manager returns it (lines 419-427): a
\* registered id is selected if there is any.
ConcInit ==
    /\ services \in Registries
    /\ current_service \in (IF DOMAIN services = {} THEN {None}
                            ELSE {Some(k) : k \in DOMAIN services})
    /\ call = NoCall
    /\ pc = "idle"
    /\ req = [content_type_ok |-> TRUE, ext |-> "mp3", size |-> 0, duration |-> 0]
    /\ whisper_model = None
    /\ RequestIdle
    /\ NoService
    /\ NoThreads

\* A thread calls set_current_service(service_id).
SelEnter(service_id) ==
    /\ Outside(sel)
    /\ sel' = Some(SelFrame("check", service_id, None))
    /\ UNCHANGED <<mgrVars, reqVars, loopVars, splitVars, apiVars, prepVars, svcVars, res>>

SelCheckSkipped ==
    /\ sel # None /\ sel[1].pc = "check"
    /\ sel' = Some([sel[1] EXCEPT !.pc = "assign"])
    /\ UNCHANGED <<mgrVars, reqVars, loopVars, splitVars, apiVars, prepVars, svcVars, res>>

\* set_current_service, lines 341-343: an id that is not registered returns False.
SelCheck ==
    /\ sel # None /\ sel[1].pc = "check"
    /\ sel' = IF sel[1].service_id \notin DOMAIN services
              THEN Some(SelFrame("done", sel[1].service_id, Some("False")))
              ELSE Some([sel[1] EXCEPT !.pc = "assign"])
    /\ UNCHANGED <<mgrVars, reqVars, loopVars, splitVars, apiVars, prepVars, svcVars, res>>

\* set_current_service, lines 345-347: the selection is assigned. A get_service
\* in progress has the new selection among those it ran alongside.
SelAssign ==
    /\ sel # None /\ sel[1].pc = "assign"
    /\ current_service' = Some(sel[1].service_id)
    /\ sel' = Some(SelFrame("done", sel[1].service_id, Some("True")))
    /\ res' = IF Outside(res) THEN res
              ELSE Some([res[1] EXCEPT !.seen = @ \cup {Some(sel[1].service_id)}])
    /\ UNCHANGED <<services, call>>
    /\ UNCHANGED <<reqVars, loopVars, splitVars, apiVars, prepVars, svcVars>>

\* A thread calls get_service(service_id), from transcribe or directly.
ResEnter(service_id) ==
    /\ Outside(res)
    /\ res' = Some(ResFrame("read", service_id, None, None, {current_service}))
    /\ UNCHANGED <<mgrVars, reqVars, loopVars, splitVars, apiVars, prepVars, svcVars, sel>>

\* get_service, line 351: sid = service_id or self.current_service
ResRead ==
    /\ res # None /\ res[1].pc = "read"
    /\ res' = Some([res[1] EXCEPT !.sid = PyOr(res[1].service_id, current_service),
                                  !.pc = "check"])
    /\ UNCHANGED <<mgrVars, reqVars, loopVars, splitVars, apiVars, prepVars, svcVars, sel>>

\* get_service, lines 352-354: ValueError for no sid or an unregistered one.
ResCheck ==
    /\ res # None /\ res[1].pc = "check"
    /\ res' = IF ~Truthy(res[1].sid) \/ res[1].sid[1] \notin DOMAIN services
              THEN Some([res[1] EXCEPT !.ret = Some(ValueError), !.pc = "done"])
              ELSE Some([res[1] EXCEPT !.pc = "return"])
    /\ UNCHANGED <<mgrVars, reqVars, loopVars, splitVars, apiVars, prepVars, svcVars, sel>>

\* get_service, line 356: return self.services[sid]
ResReturn ==
    /\ res # None /\ res[1].pc = "return"
    /\ res' = Some([res[1] EXCEPT !.ret = Some(Returned(services[res[1].sid[1]])),
                                  !.pc = "done"])
    /\ UNCHANGED <<mgrVars, reqVars, loopVars, splitVars, apiVars, prepVars, svcVars, sel>>

ConcNext ==
    \/ \E s \in RequestIds : SelEnter(s)
    \/ SelCheck
    \/ SelAssign
    \/ \E o \in {None} \cup {Some(s) : s \in RequestIds} : ResEnter(o)
    \/ ResRead
    \/ ResCheck
    \/ ResReturn

\* One thread selecting and one resolving, their steps interleaved in any order.
SpecConc == ConcInit /\ [][ConcNext]_vars

----------------------------------------------------------------------------
(* split_audio's plan *)

\* split_audio has just returned chunk_paths to transcribe_with_whisper.
SplitReturned == pc = "tw_loop" /\ results = <<>> /\ transcribed = <<>>

\* The plan came from the splitting loop, not from the fast path.
PlanIsSplit == SplitReturned /\ file_size > max_bytes

RECURSIVE SumDurations(_)
SumDurations(ss) ==
    IF ss = <<>> THEN 0 ELSE (Head(ss)[2] - Head(ss)[1]) + SumDurations(Tail(ss))

\* C1: whenever split_audio returns, every path of the returned list names a
\* file on disk whose byte size is at most max_bytes.
C1_ChunksWithinBudget ==
    SplitReturned =>
        \A n \in DOMAIN chunk_paths :
            IsFile(fs, chunk_paths[n]) /\ fs[chunk_paths[n]] <= max_bytes

\* A plan of at least two chunks, one of which was halved after an oversized export.
C1_Witness ==
    /\ PlanIsSplit
    /\ Len(chunk_paths) >= 2
    /\ \E n \in DOMAIN spans :
        n < Len(spans) /\ spans[n][2] - spans[n][1] < approx_chunk_ms

\* C2: a plan produced by splitting covers [0, duration_ms) in list order with
\* no gap and no overlap: the first chunk starts at 0, each later chunk starts
\* at the final end of the one before, the last ends at duration_ms, the k-th
\* element is the file of index k and the durations sum to the duration.
C2_ChunksContiguous ==
    PlanIsSplit =>
        /\ Len(spans) = Len(chunk_paths)
        /\ \A n \in DOMAIN chunk_paths :
            /\ chunk_paths[n] = ChunkPath(file_path[1], n - 1, "mp3")
            /\ spans[n][1] < spans[n][2]
            /\ spans[n][1] = (IF n = 1 THEN 0 ELSE spans[n - 1][2])
        /\ (chunk_paths # <<>> => spans[Len(spans)][2] = duration_ms)
        /\ (chunk_paths = <<>> => duration_ms = 0)
        /\ SumDurations(spans) = duration_ms

\* A split plan of three chunks whose first chunk was halved.
C2_Witness ==
    /\ PlanIsSplit
    /\ Len(chunk_paths) = 3
    /\ spans[1][2] - spans[1][1] < approx_chunk_ms

\* C10: a file of at most max_bytes is returned as the single chunk, the input
\* path itself, in one step that writes no file and leaves the disk as it is;
\* the result fits again, so that splitting it again returns the same plan.
C10_FastPathIdentity ==
    [][(pc = "split_entry" /\ fs[file_path[1]] <= max_bytes) =>
            /\ pc' = "tw_loop"
            /\ chunk_paths' = <<file_path[1]>>
            /\ fs' = fs
            /\ io' = io
            /\ file_path' = file_path
            /\ fs'[chunk_paths'[1]] <= max_bytes]_vars

\* The fast path was taken for a file of exactly max_bytes.
C10_Witness ==
    /\ SplitReturned
    /\ file_size = max_bytes
    /\ chunk_paths = <<file_path[1]>>
    /\ \A e \in Range(io) : e.path \notin {ChunkPath(file_path[1], 0, "mp3")}

----------------------------------------------------------------------------
(* The per-chunk transcription loop *)

\* The transcription of chunk Len(transcribed) has failed.
ChunkFailed == Len(transcribed) > Len(results)

RECURSIVE RootCause(_)
\* The exception at the bottom of the chain an exception quotes.
RootCause(e) == IF e.cause = None THEN e ELSE RootCause(e.cause[1])

RECURSIVE JoinedBySpace(_)
\* The texts with one space between neighbours, built from the right.
JoinedBySpace(parts) ==
    IF parts = <<>> THEN <<>>
    ELSE IF Len(parts) = 1 THEN parts[1]
    ELSE JoinedBySpace(SubSeq(parts, 1, Len(parts) - 1)) \o <<" ">> \o parts[Len(parts)]

\* s from its first to its last character that is not a space.
Trimmed(s) ==
    LET solid == {n \in DOMAIN s : s[n] # " "} IN
    IF solid = {} THEN <<>>
    ELSE SubSeq(s, CHOOSE n \in solid : \A m \in solid : n <= m,
                   CHOOSE n \in solid : \A m \in solid : n >= m)

\* C4: when the request returns a text, every chunk was transcribed once, in
\* list order, and the text is the chunk texts in that order joined by single
\* spaces and trimmed; for "A", "B", "C" it is exactly "A B C".
C4_OrderedJoin ==
    (resp # None /\ resp[1].status = 200) =>
        /\ transcribed = chunk_paths
        /\ Len(results) = Len(chunk_paths)
        /\ resp[1].text = Trimmed(JoinedBySpace(results))
        /\ (results = << <<"A">>, <<"B">>, <<"C">> >> =>
                resp[1].text = <<"A", " ", "B", " ", "C">>)

\* Three chunks transcribed as "A", "B", "C" and returned.
C4_Witness ==
    /\ resp # None
    /\ resp[1].status = 200
    /\ results = << <<"A">>, <<"B">>, <<"C">> >>

\* The number of times p was removed.
TimesRemoved(p) == Cardinality({n \in DOMAIN io : io[n] = Removed(p)})

\* The files the request has written.
FilesWritten == {io[n].path : n \in {m \in DOMAIN io : io[m].op = "write"}}

NoRemovalFailed == \A n \in DOMAIN io : io[n].op # "remove_failed"

\* C5: when the request has finished, whatever its outcome, every file it
\* wrote (the temp file, the converted and the compressed mp3, every chunk) is
\* gone, removed exactly once (no removal having failed).
C5_AllIntermediatesDeleted ==
    (pc = "done" /\ NoRemovalFailed) =>
        \A p \in FilesWritten : ~IsFile(fs, p) /\ TimesRemoved(p) = 1

----------------------------------------------------------------------------
(* whisper_api's cleanup *)

----------------------------------------------------------------------------
(* The registry *)

\* The claimed resolve: the backend of the id when it is given and registered,
\* else the active backend, failing only when neither is there.
ResolveWithFallback(svcs, cur, service_id) ==
    IF service_id # None /\ service_id[1] \in DOMAIN svcs
    THEN Returned(svcs[service_id[1]])
    ELSE IF cur # None /\ cur[1] \in DOMAIN svcs THEN Returned(svcs[cur[1]])
    ELSE ValueError

\* C7: after a successful set_current_service(x), get_service(None) returns the
\* backend registered under x, and get_service(y) returns the backend of any
\* registered y whatever the selection.
C7_SelectThenResolve ==
    call.op = "get_service" =>
        /\ (call.arg = None /\ current_service # None =>
                call.ret = Returned(services[current_service[1]]))
        /\ (call.arg # None /\ call.arg[1] \in DOMAIN services =>
                call.ret = Returned(services[call.arg[1]]))

\* No empty string among the id given, the selection and the registered ids.
NoEmptyId ==
    /\ (call.arg # None => call.arg[1] # "")
    /\ (current_service # None => current_service[1] # "")
    /\ "" \notin DOMAIN services

\* C8 as claimed: get_service returns the id's backend when the id is given and
\* registered and otherwise the active backend, also for an unregistered id.
C8_ResolveFallsBack ==
    (call.op = "get_service" /\ NoEmptyId) =>
        call.ret = ResolveWithFallback(services, current_service, call.arg)

\* C8 as amended: the id that counts is the one given, unless it is None or
\* empty, and then the selection; get_service returns the backend registered
\* under it and fails when it is None, empty or not registered. An id that is
\* given and not registered fails and never falls back to the active backend.
C8_ResolveNoFallback ==
    call.op = "get_service" =>
        LET given == call.arg # None /\ call.arg[1] # ""
            sid == IF given THEN call.arg ELSE current_service
        IN /\ (sid # None /\ sid[1] # "" /\ sid[1] \in DOMAIN services
                    => call.ret = Returned(services[sid[1]]))
           /\ (sid = None \/ (sid # None /\ (sid[1] = "" \/ sid[1] \notin DOMAIN services))
                    => call.ret = ValueError)
           /\ (given /\ call.arg[1] \notin DOMAIN services => call.ret = ValueError)

\* An unregistered id was asked for while another backend was active, and
\* get_service failed.
C8_Witness ==
    /\ call.op = "get_service"
    /\ call.arg # None /\ call.arg[1] # "" /\ call.arg[1] \notin DOMAIN services
    /\ current_service # None /\ current_service[1] # ""
    /\ current_service[1] \in DOMAIN services
    /\ call.ret = ValueError

\* C9: set_current_service(id) returns False and leaves the selection and the
\* registered services as they were when id is not registered; otherwise it
\* returns True and the selection is id.
C9_SelectChecked ==
    call.op = "set_current_service" =>
        IF call.arg[1] \notin DOMAIN call.pre_services
        THEN /\ call.ret = Returned("False")
             /\ current_service = call.pre_current
             /\ services = call.pre_services
        ELSE /\ call.ret = Returned("True")
             /\ current_service = call.arg
             /\ services = call.pre_services

\* A selection of an unregistered id failed while another backend was selected.
C9_Witness ==
    /\ call.op = "set_current_service"
    /\ call.ret = Returned("False")
    /\ current_service # None
    /\ call.arg # current_service

----------------------------------------------------------------------------
(* The size of a plan *)

\* C11: every plan split_audio returns has at least one chunk, whatever the
\* byte size, the decoded duration (0 ms included) and max_bytes are.
C11_PlanNonEmpty ==
    SplitReturned => Len(chunk_paths) >= 1

----------------------------------------------------------------------------
(* preprocess_audio's trim *)

\* preprocess_audio has decoded the upload and exported the prepared sound.
Prepared == sound # None /\ trimmed_sound # None

\* What is left of the sound between its leading and its trailing silence.
Remaining == SoundLen(sound[1]) - start_trim - end_trim

\* C12: the prepared sound is either the sound between the leading and the
\* trailing silence, at least 1000 ms long, or the whole decoded sound; it is
\* the whole sound whenever less than 1000 ms would remain after the trim,
\* also when the two silences overlap and when the source is under 1 s.
C12_TrimFloor ==
    Prepared =>
        LET n == SoundLen(sound[1]) IN
        /\ \/ /\ trimmed_sound[1] = <<start_trim, n - end_trim>>
              /\ SegLen(trimmed_sound[1]) >= MIN_TRIMMED_MS
           \/ trimmed_sound[1] = <<0, n>>
        /\ (Remaining < MIN_TRIMMED_MS => trimmed_sound[1] = <<0, n>>)
        /\ (Remaining >= MIN_TRIMMED_MS => trimmed_sound[1] = <<start_trim, n - end_trim>>)

\* A sound over 1 s whose trim would leave under 1 s, so that the whole is kept.
C12_Witness ==
    /\ Prepared
    /\ SoundLen(sound[1]) > MIN_TRIMMED_MS
    /\ start_trim > 0 /\ end_trim > 0
    /\ Remaining > 0 /\ Remaining < MIN_TRIMMED_MS
    /\ trimmed_sound[1] = <<0, SoundLen(sound[1])>>

----------------------------------------------------------------------------
(* Uploads that cannot be prepared *)

\* preprocess_audio could not decode the upload and gave its path back.
Undecodable == original_file_path # None /\ processed_file_path = original_file_path

----------------------------------------------------------------------------
(* The backends' errors and initialisation *)

\* C14: whatever fails inside the transcribe of any of the four backends, the
\* exception that reaches the caller is of the one type the backends share,
\* RuntimeError with a detail string, never an exception of a library.
C14_UniformError ==
    \A n \in DOMAIN svc_calls :
        svc_calls[n].raised # None => svc_calls[n].raised = Some("RuntimeError")

\* The backend of a call cannot be resolved: the id given is not registered,
\* or none is given and there is no active selection.
Unresolvable(svcs, cur, service_id) ==
    \/ Truthy(service_id) /\ service_id[1] \notin DOMAIN svcs
    \/ ~Truthy(service_id) /\ cur = None

\* C15: a transcription whose backend cannot be resolved fails with the
\* registry's error before any backend's transcribe is called: the manager's
\* transcribe raises ValueError and calls no backend, and the /transcribe
\* handler answers with a server error without any backend having been called.
C15_UnresolvedFailsFirst ==
    [][/\ (call'.op = "transcribe" /\ Unresolvable(services, current_service, call'.arg)) =>
            (call'.ret = ValueError /\ transcribed' = transcribed)
       /\ (/\ pc = "api_transcribe"
           /\ Unresolvable(services, current_service, req.service_id)) =>
            /\ transcribed' = transcribed
            /\ resp' # None /\ resp'[1].status = 500
            /\ RootCause(resp'[1].error[1]) = Exception("ValueError", 0)]_vars

\* The manager's transcribe has failed for an unregistered id while a backend
\* was selected, and earlier calls had reached a backend.
C15_Witness ==
    /\ call.op = "transcribe"
    /\ Truthy(call.arg) /\ call.arg[1] \notin DOMAIN call.pre_services
    /\ Truthy(call.pre_current)
    /\ call.ret = ValueError
    /\ transcribed # <<>>

\* The object of the n-th call had reported ready before that call: its model
\* was loaded, or an earlier initialize had returned True.
ReadyBefore(n) ==
    \/ svc_calls[n].svc.cls = "LocalWhisperService" /\ svc_calls[n].svc.model # None
    \/ \E k \in 1..(n - 1) : svc_calls[k].initialize = <<TRUE>>

\* C16: transcribe calls initialize on the first use of a backend object and
\* not again once initialize has reported ready; when initialize reports
\* not-ready the call fails with RuntimeError and neither the model nor the API
\* is asked to transcribe.
C16_LazyInitOnce ==
    \A n \in DOMAIN svc_calls :
        /\ (~ReadyBefore(n) => svc_calls[n].initialize # <<>>)
        /\ (ReadyBefore(n) => svc_calls[n].initialize = <<>>)
        /\ (svc_calls[n].initialize = <<FALSE>> =>
                ~svc_calls[n].invoked /\ svc_calls[n].raised = Some("RuntimeError"))

----------------------------------------------------------------------------
(* Failing removals *)

\* The removal of p was attempted, whether it succeeded or not.
Attempted(p) == \E n \in DOMAIN io : io[n].path = p /\ io[n].op \in {"remove", "remove_failed"}

SomeRemovalFailed == \E n \in DOMAIN io : io[n].op = "remove_failed"

\* C17: when the removal of a derived file fails during the cleanup, the
\* removal of the upload and of every other derived file is attempted all the
\* same: in whisper_api the upload after the preprocessed WAV, in
\* whisper_service every chunk and then the temp file.
C17_CleanupGoesOn ==
    (pc = "done" /\ SomeRemovalFailed) =>
        /\ (original_file_path # None /\ processed_file_path # None) =>
                Attempted(original_file_path[1])
        /\ \A n \in DOMAIN chunk_paths :
                chunk_paths[n] # file_path[1] => Attempted(chunk_paths[n])
        /\ temp_file_path # None => Attempted(temp_file_path[1])

\* C18: a removal that fails during the cleanup never changes what the request
\* answers: the response, or the exception in flight, is after each cleanup
\* step what it was before it, in the /transcribe handler of whisper_api and in
\* that of whisper_service.
C18_CleanupKeepsOutcome ==
    [][(pc = "tw_finally" \/ pc = "svc_finally" \/ pc = "api_finally") =>
            (resp' = resp /\ exc' = exc)]_vars

----------------------------------------------------------------------------
(* Where the prepared audio is written *)

\* The upload is written first; no later write goes to path p.
WrittenOnce(p) == \A n \in DOMAIN io : (io[n] = Wrote(p)) => n = 1

\* C19: the prepared audio is written to a path other than the upload's, and
\* the upload is never overwritten, whatever the extension of its name: by
\* preprocess_audio's WAV export in whisper_api and by convert_audio_to_mp3's
\* export in whisper_service.
C19_UploadNotOverwritten ==
    /\ original_file_path # None => WrittenOnce(original_file_path[1])
    /\ (original_file_path # None /\ sound # None) =>
            processed_file_path # None /\ processed_file_path # original_file_path
    /\ temp_file_path # None => WrittenOnce(temp_file_path[1])

----------------------------------------------------------------------------
(* The minimum length of a silence *)

\* C20: a silence at either end is cut only if it is below the threshold and
\* at least min_silence_len long: a shorter run is left in place, and runs of
\* at least that length are cut (unless under 1 s would remain).
C20_MinSilenceLen ==
    Prepared =>
        LET n == SoundLen(sound[1])
            lead == detect_leading_silence(sound[1], silence_threshold)
            trail == detect_leading_silence(Reverse(sound[1]), silence_threshold)
        IN /\ lead < min_silence_len => trimmed_sound[1][1] = 0
           /\ trail < min_silence_len => trimmed_sound[1][2] = n
           /\ (/\ lead >= min_silence_len
               /\ trail >= min_silence_len
               /\ n - lead - trail >= MIN_TRIMMED_MS) =>
                    trimmed_sound[1] = <<lead, n - trail>>

----------------------------------------------------------------------------
(* The registry: registrations and the selection *)

\* C21: register_service(id, b) makes b the backend of id and leaves every
\* other registration and the selection as they were, and get_service(id)
\* returns what is registered under id, which is therefore the backend of the
\* most recent register_service(id, ...).
C21_LastRegistrationWins ==
    [][/\ \A s \in ServiceIds, b \in Backends :
            RegisterService(s, b) =>
                /\ DOMAIN services' = DOMAIN services \cup {s}
                /\ services'[s] = b
                /\ \A k \in DOMAIN services \ {s} : services'[k] = services[k]
                /\ current_service' = current_service
       /\ (/\ call'.op = "get_service"
           /\ call'.arg # None
           /\ call'.arg[1] \in DOMAIN services) =>
                call'.ret = Returned(services[call'.arg[1]])]_vars

\* C22: a get_service that runs while set_current_service runs returns, when
\* an id is given, that id's backend (or fails if it is not registered), and
\* when none is given the backend of a selection that was the active one at
\* some moment of the call, before or after the select; it does not fail if a
\* selection existed when it began.
C22_ResolveSeesOldOrNew ==
    (res # None /\ res[1].pc = "done") =>
        LET r == res[1] IN
        IF Truthy(r.service_id)
        THEN r.ret = Some(IF r.service_id[1] \in DOMAIN services
                          THEN Returned(services[r.service_id[1]]) ELSE ValueError)
        ELSE None \notin r.seen =>
                \E a \in r.seen :
                    a[1] \in DOMAIN services /\ r.ret = Some(Returned(services[a[1]]))

\* A resolve without an id returned the old selection's backend although the
\* select had assigned the new one before the resolve ended.
C22_Witness ==
    /\ res # None /\ res[1].pc = "done"
    /\ res[1].service_id = None
    /\ Cardinality(res[1].seen) = 2
    /\ sel # None /\ sel[1].ret = Some("True")
    /\ res[1].ret # Some(Returned(services[current_service[1]]))

----------------------------------------------------------------------------
(* The status of a failed request *)

\* The failures that are the upload's: its type, its length, its conversion.
MediaFailures == {"unsupported_type", "empty_file", "invalid_format", "convert_failed"}

\* The failures that are the backend's: it cannot be loaded or resolved, or
\* its transcription fails.
BackendFailures == {"load_failed", "ValueError", "backend_error", "transcribe_error"}

\* C23: a failed request answers with a client error (4xx) when what failed is
\* the media (content type, empty or too short upload, audio conversion) and
\* with a server error (5xx) when the backend is unavailable or fails.
C23_StatusMatchesCategory ==
    (pc = "done" /\ resp # None /\ resp[1].error # None) =>
        LET cause == RootCause(resp[1].error[1]).detail IN
        /\ cause \in MediaFailures => resp[1].status \in 400..499
        /\ cause \in BackendFailures => resp[1].status \in 500..599

----------------------------------------------------------------------------
(* The size of the plan *)

THIRTY_MB == 30 * 1024 * 1024

\* The run is one of an encoder of uniform bitrate: the audio is not empty,
\* every chunk kept the duration it was cut with (its first export fitted) and
\* the share of the file's bytes that falls to its duration is within max_bytes.
UniformBitrate ==
    /\ duration_ms > 0
    /\ \A n \in DOMAIN spans :
        /\ spans[n][2] = Min(spans[n][1] + approx_chunk_ms, duration_ms)
        /\ (spans[n][2] - spans[n][1]) * (file_size \div (1024 * 1024))
               <= MAX_FILE_SIZE_MB * duration_ms

----------------------------------------------------------------------------
(* The halving of a chunk *)

\* C25: once a chunk is exported, a step of split_audio halves it (same start,
\* same path, one more export) exactly while its file is over max_bytes and it
\* is longer than 5 seconds; a chunk whose file fits is appended with the end
\* it has, never shortened; a chunk still over max_bytes when the halving stops
\* makes split_audio fail with "chunk too large", and no plan is returned.
C25_HalveWhileTooLarge ==
    [][pc = "split_shrink" =>
        LET chunk_path == ChunkPath(file_path[1], i, "mp3")
            over == fs[chunk_path] > max_bytes
            long == (end - start) > HALVE_FLOOR_MS
        IN
        /\ (over /\ long) =>
            /\ start' = start /\ i' = i
            /\ end' = start + ((end - start) \div 2)
            /\ io' = Append(io, Wrote(chunk_path))
            /\ pc' = "split_shrink"
        /\ ~over =>
            /\ end' = end
            /\ chunks' = Append(chunks, chunk_path)
            /\ spans' = Append(spans, <<start, end>>)
            /\ fs' = fs /\ io' = io
        /\ (over /\ ~long) =>
            /\ exc' = Some(Exception("chunk_too_large", 0))
            /\ pc' = "tw_except"
            /\ chunks' = chunks
            /\ chunk_paths = <<>> /\ chunk_paths' = <<>>]_vars

\* A second chunk that was halved to 5 seconds or less, was still too large
\* and made the split fail.
C25_Witness ==
    /\ pc = "tw_except"
    /\ exc = Some(Exception("chunk_too_large", 0))
    /\ i = 1
    /\ end - start < Min(approx_chunk_ms, duration_ms - start)
    /\ end - start <= HALVE_FLOOR_MS

----------------------------------------------------------------------------
(* The termination of split_audio *)

\* split_audio is running.
InSplit == pc \in {"split_entry", "split_loop", "split_shrink"}

\* split_audio is in its loop over the chunks.
InSplitLoop == pc \in {"split_loop", "split_shrink"}

\* The number of exports of the file p.
TimesWritten(p) == Cardinality({n \in DOMAIN io : io[n] = Wrote(p)})

RECURSIVE Pow2(_)
Pow2(n) == IF n = 0 THEN 1 ELSE 2 * Pow2(n - 1)

\* C26: split_audio terminates whatever the file and whatever the encoder
\* produces: a chunk is appended only with a start that moves forward, the
\* re-exports of the chunk at hand number at most ceil(log2(d / 5 s)), d being
\* the duration it was cut with (none when d is 5 s or less), and a split_audio
\* that has entered its loop eventually returns or raises.
C26_SplitTerminates ==
    /\ [][(pc = "split_shrink" /\ pc' = "split_loop") => start' > start]_vars
    /\ [](pc = "split_shrink" =>
            LET h == TimesWritten(ChunkPath(file_path[1], i, "mp3")) - 1
                d == Min(approx_chunk_ms, duration_ms - start)
            IN h >= 0 /\ (h > 0 => HALVE_FLOOR_MS * Pow2(h - 1) < d))
    /\ [](InSplitLoop => <>(~InSplit))

\* split_audio has returned a plan of three chunks, the first of which had
\* been exported again after a halving.
C26_Witness ==
    /\ pc = "tw_loop" /\ file_size > max_bytes
    /\ Len(chunk_paths) = 3
    /\ TimesWritten(chunk_paths[1]) = 2

----------------------------------------------------------------------------
(* The estimate of the chunk duration *)

\* One doubling step: from h = <<q, r>> for d \div 2 to <<q, r>> for d.
MulDivStep(h, d, m, o) ==
    LET q2 == 2 * h[1] + (2 * h[2]) \div o
        r2 == (2 * h[2]) % o
        qa == IF d % 2 = 1 THEN q2 + (m \div o) ELSE q2
        ra == IF d % 2 = 1 THEN r2 + (m % o) ELSE r2
    IN <<qa + ra \div o, ra % o>>

RECURSIVE MulDivQR(_, _, _)
\* <<q, r>> with d * m = q * o + r and 0 <= r < o, by doubling, so that no
\* intermediate value leaves the 32-bit integers.
MulDivQR(d, m, o) ==
    IF d = 0 THEN <<0, 0>>
    ELSE CHOOSE qr \in {MulDivStep(h, d, m, o) : h \in {MulDivQR(d \div 2, m, o)}} : TRUE

\* floor(duration_ms * max_bytes / file_size), the quotient taken exactly.
ExactScaledDuration(dur, m, o) == MulDivQR(dur, m, o)[1]

\* C27: while split_audio cuts a file, approx_chunk_ms is
\* max(floor(duration_ms * max_bytes / file_size) - 1000, 1000), and a chunk
\* that has been exported once (not halved yet) lasts exactly that long, or, at
\* the end of the audio, what is left of it.
C27_InitialChunkDuration ==
    (pc \in {"split_loop", "split_shrink"}) =>
        LET estimate == Max(ExactScaledDuration(duration_ms, max_bytes, file_size)
                                - CHUNK_MARGIN_MS, CHUNK_FLOOR_MS)
        IN
        /\ approx_chunk_ms = estimate
        /\ (pc = "split_shrink" /\ TimesWritten(ChunkPath(file_path[1], i, "mp3")) = 1) =>
                end - start = Min(estimate, duration_ms - start)

----------------------------------------------------------------------------
(* The chunks of a split that failed *)

\* The path is one of split_audio's chunk files.
IsChunkPath(p) == \E n \in DOMAIN p.stem : p.stem[n] = "chunk"

\* C28: when the request has finished and split_audio had failed on a chunk
\* that could not be reduced, no chunk file exported during the split is left
\* on disk: neither the failing chunk nor the chunks accepted before it.
C28_FailedSplitLeavesNoChunk ==
    (/\ pc = "done" /\ resp # None /\ resp[1].error # None
     /\ RootCause(resp[1].error[1]).detail = "chunk_too_large") =>
        \A p \in FilesWritten : IsChunkPath(p) => ~IsFile(fs, p)

----------------------------------------------------------------------------
(* The selection stays resolvable *)

\* C29: after any sequence of register_service, set_current_service,
\* get_service and transcribe calls, current_service is None or a key of
\* services, and so, once a selection has succeeded (current_service is set),
\* get_service(None) does not fail.
C29_SelectionResolvable ==
    /\ (current_service = None \/ current_service[1] \in DOMAIN services)
    /\ (call.op = "get_service" /\ call.arg = None /\ current_service # None) =>
            call.ret.ok

\* The first half alone: the selection is None or a registered id.
C29_SelectionRegistered ==
    current_service = None \/ current_service[1] \in DOMAIN services

----------------------------------------------------------------------------
(* POST /change-service *)

\* C30: POST /change-service with an id that is not registered answers 404 and
\* leaves the selection as it was; with a registered id it answers ok and
\* selects the id, and a resolve without an id then returns the backend
\* registered under the selection.
C30_ChangeService ==
    /\ call.op = "change_service" =>
        IF call.arg[1] \notin DOMAIN call.pre_services
        THEN resp[1].status = 404 /\ current_service = call.pre_current
        ELSE resp[1].status = 200 /\ current_service = call.arg
    /\ (call.op = "get_service" /\ call.arg = None /\ current_service # None) =>
            call.ret = Returned(services[current_service[1]])

\* The part of C30 that is about the answer to an id that is not registered.
C30_UnknownIdAnswered404 ==
    (call.op = "change_service" /\ call.arg[1] \notin DOMAIN call.pre_services) =>
        resp[1].status = 404

\* The part of C30 that is about the selection after the call.
C30_SelectionAfterCall ==
    call.op = "change_service" =>
        IF call.arg[1] \notin DOMAIN call.pre_services
        THEN current_service = call.pre_current
        ELSE resp[1].status = 200 /\ current_service = call.arg

====
